---- MODULE Spec2Model ----
(***************************************************************************)
(* Model of the dealer prospector.  search_independent_dealers            *)
(* (src/app.py): the candidate gathering loops, the per-candidate          *)
(* classification and scoring loop, the final sort and the session cache;  *)
(* a session of searches under a clock; CRMService                         *)
(* (src/services/crm_service.py) over the prospects, communications,       *)
(* searches and search_results tables (src/models/database.py); and the    *)
(* map click handler (src/components/maps.py).                             *)
(*                                                                         *)
(* Strings are TLA+ strings; substring tests, lower() and strip() are      *)
(* computed character by character.  A rating is held in tenths (45 for    *)
(* 4.5), a raw geodesic distance in hundredths of a mile (2000 for 20.0)   *)
(* and a rounded distance in tenths of a mile.  The em dash of a business  *)
(* name is written "-" (TLA+ strings are ASCII); it occurs in no pattern   *)
(* with a space on either side.                                            *)
(***************************************************************************)
EXTENDS Integers, Sequences, FiniteSets, TLC

(***************************************************************************)
(* Bounds of the model.                                                    *)
(***************************************************************************)
MaxPlaces == 3
MaxPages == 2

(***************************************************************************)
(* Python string primitives.                                               *)
(***************************************************************************)
UpperMap ==
    [A |-> "a", B |-> "b", C |-> "c", D |-> "d", E |-> "e", F |-> "f",
     G |-> "g", H |-> "h", I |-> "i", J |-> "j", K |-> "k", L |-> "l",
     M |-> "m", N |-> "n", O |-> "o", P |-> "p", Q |-> "q", R |-> "r",
     S |-> "s", T |-> "t", U |-> "u", V |-> "v", W |-> "w", X |-> "x",
     Y |-> "y", Z |-> "z"]

LowerChar(c) ==
    IF c \in DOMAIN UpperMap THEN UpperMap[c] ELSE c

RECURSIVE LowerFrom(_, _)
LowerFrom(s, i) ==
    IF i > Len(s) THEN "" ELSE LowerChar(SubSeq(s, i, i)) \o LowerFrom(s, i + 1)

\* str.lower()
Lower(s) ==
    LowerFrom(s, 1)

RECURSIVE LStrip(_)
LStrip(s) ==
    IF Len(s) > 0 /\ SubSeq(s, 1, 1) = " " THEN LStrip(SubSeq(s, 2, Len(s))) ELSE s

RECURSIVE RStrip(_)
RStrip(s) ==
    IF Len(s) > 0 /\ SubSeq(s, Len(s), Len(s)) = " "
    THEN RStrip(SubSeq(s, 1, Len(s) - 1)) ELSE s

\* str.strip()
Strip(s) ==
    RStrip(LStrip(s))

\* pat in s
Contains(s, pat) ==
    \E i \in 1..(Len(s) - Len(pat) + 1) : SubSeq(s, i, i + Len(pat) - 1) = pat

\* s.startswith(pat)
StartsWith(s, pat) ==
    Len(pat) <= Len(s) /\ SubSeq(s, 1, Len(pat)) = pat

\* s.endswith(pat)
EndsWith(s, pat) ==
    Len(pat) <= Len(s) /\ SubSeq(s, Len(s) - Len(pat) + 1, Len(s)) = pat

\* any(p in s for p in pats)
ContainsAny(s, pats) ==
    \E p \in pats : Contains(s, p)

(***************************************************************************)
(* The rule tables of search_independent_dealers.                          *)
(***************************************************************************)
franchise_brands ==
    {"toyota", "honda", "ford", "chevrolet", "chevy", "nissan", "mazda",
     "hyundai", "kia", "subaru", "volkswagen", "vw", "bmw", "mercedes-benz",
     "mercedes", "audi", "lexus", "infiniti", "acura", "cadillac", "lincoln",
     "buick", "gmc", "chrysler", "dodge", "jeep", "ram", "fiat", "mitsubishi",
     "volvo", "jaguar", "land rover", "porsche", "mini", "tesla", "genesis",
     "alfa romeo", "maserati", "bentley", "rolls-royce", "ferrari", "lamborghini",
     "peugeot", "citroen", "renault", "seat", "skoda", "smart", "saab", "hummer",
     "saturn", "pontiac", "oldsmobile", "plymouth", "mercury", "scion", "isuzu",
     "suzuki", "daewoo", "maybach", "mclaren", "aston martin", "lotus",
     "freightliner", "peterbilt", "kenworth", "mack", "international", "volvo trucks",
     "western star", "sterling", "autocar", "hino", "isuzu commercial"}

franchise_clear_indicators ==
    {"dealership", "new & used", "new and used", "certified pre-owned",
     "sales & service", "sales and service", "service center",
     "collision center", "parts & service", "motor company",
     "auto group", "family of dealerships", "auto mall"}

franchise_only_patterns ==
    {"authorized dealer", "certified dealer", "official dealer",
     "factory authorized", "manufacturer certified",
     "oem parts", "genuine parts", "warranty service"}

skip_keywords ==
    {"rent-a-car", "enterprise rent", "hertz rent", "avis rent", "budget rent",
     "parts only", "junkyard", "salvage yard", "towing service", "wrecker service",
     "car wash only", "detail only", "repair only", "mechanic only",
     "glass only", "windshield only", "tire shop", "oil change only",
     "insurance agency", "financing only", "aftermarket only",
     "motorcycle only", "truck rental only", "van rental only",
     "parking lot", "storage facility", "gas station", "fuel station",
     "driving school", "dmv office", "dmv service", "notary service"}

independent_indicators ==
    {"used cars", "used car", "pre-owned", "pre owned", "previously owned",
     "certified pre-owned", "quality used", "clean used", "reliable used",
     "auto sales", "car sales", "vehicle sales", "automobile sales",
     "independent", "family owned", "locally owned", "owner operated",
     "family business", "local business", "since", "est.",
     "car lot", "auto lot", "lot", "cars", "autos", "vehicles",
     "car mart", "auto mart", "car world", "auto world",
     "car connection", "auto connection", "car plaza", "auto plaza",
     "car center", "auto center", "car hub", "auto hub",
     "car gallery", "auto gallery", "car depot", "auto depot",
     "car warehouse", "auto warehouse", "car emporium", "auto emporium",
     "affordable cars", "discount auto", "budget cars", "economy auto",
     "value cars", "bargain auto", "cheap cars", "low price",
     "select auto", "premier auto", "elite auto", "choice auto",
     "best buy auto", "first choice", "top choice", "prime auto",
     "motors", "automotive", "auto", "dealer", "dealership",
     "car company", "auto company", "car group", "auto group",
     "wholesale", "trade", "consignment", "broker"}

likely_dealer_words ==
    {"car", "auto", "vehicle", "motor", "sales", "dealer"}

car_related_words ==
    {"car", "auto", "vehicle", "motor", "sales", "dealer", "lot"}

strong_independent_words ==
    {"independent", "family owned", "locally owned", "used cars", "used car lot"}

(***************************************************************************)
(* dict.get: an optional field is <<>> (key absent) or <<value>>.          *)
(***************************************************************************)
Get(field, default) ==
    IF field = <<>> THEN default ELSE field[1]

\* truth value of details.get(key) for a string field
Truthy(field) ==
    field # <<>> /\ field[1] # ""

(***************************************************************************)
(* The places provider's possible answers.                                 *)
(***************************************************************************)
PlaceIds == 1..MaxPlaces

\* the ZIP codes the session's cache can hold
ZipCodes == {"30301", "30303"}

\* the ZIP code of the calls that are followed step by step
SearchZips == {"30301"}

NumTextQueries == 8
NumRadiusSearches == 2
NumCitySearches == 2
MaxCalls == 2

\* the ZIP codes a map click can resolve to
MapZips == {"30301", "30303"}
CacheTTL == 60

\* one page of results: a sequence of place ids
Pages(ids) ==
    UNION {[1..n -> ids] : n \in 0..MaxPlaces}

NoDetails ==
    [name |-> <<>>, business_status |-> <<>>, formatted_address |-> <<>>,
     location |-> <<>>, rating |-> <<>>, user_ratings_total |-> <<>>,
     website |-> <<>>, formatted_phone_number |-> <<>>]

AddrInZip == "12 Main St, Atlanta, GA 30301, USA"
AddrElsewhere == "5 Oak Ave, Macon, GA 31201, USA"
SomeWebsite == "https://dealer.example"
SomePhone == "(404) 555-0100"

Place(name, status, address, location, rating, reviews, website, phone) ==
    [name |-> name, business_status |-> status, formatted_address |-> address,
     location |-> location, rating |-> rating, user_ratings_total |-> reviews,
     website |-> website, formatted_phone_number |-> phone]

\* a small catalogue of places for searches over several candidates
Catalog ==
    {Place(<<"Family Owned Used Cars">>, <<"OPERATIONAL">>, <<AddrInZip>>, <<118>>,
           <<46>>, <<120>>, <<SomeWebsite>>, <<SomePhone>>),
     Place(<<"Smith Auto Sales">>, <<>>, <<AddrInZip>>, <<123>>,
           <<46>>, <<120>>, <<SomeWebsite>>, <<SomePhone>>),
     Place(<<"Smith Used Car Lot">>, <<"OPERATIONAL">>, <<AddrElsewhere>>, <<323>>,
           <<46>>, <<120>>, <<SomeWebsite>>, <<SomePhone>>),
     Place(<<"Quality Motor Co">>, <<"OPERATIONAL">>, <<AddrElsewhere>>, <<40>>,
           <<>>, <<>>, <<>>, <<>>),
     Place(<<"Ramsey Auto Sales">>, <<"OPERATIONAL">>, <<AddrElsewhere>>, <<1999>>,
           <<40>>, <<19>>, <<>>, <<SomePhone>>),
     Place(<<"Lotus">>, <<"OPERATIONAL">>, <<AddrInZip>>, <<>>,
           <<>>, <<>>, <<>>, <<>>),
     Place(<<"Best Used Cars">>, <<"CLOSED_PERMANENTLY">>, <<AddrInZip>>, <<10>>,
           <<50>>, <<500>>, <<SomeWebsite>>, <<SomePhone>>),
     Place(<<"Honda Dealership of Springfield">>, <<"OPERATIONAL">>, <<AddrInZip>>, <<300>>,
           <<45>>, <<100>>, <<SomeWebsite>>, <<SomePhone>>)}

RawNames ==
    {"Honda Dealership of Springfield",
     "City Auto Sales - We Buy Toyotas & More",
     "City Motors - We Buy Any Car Including Toyota",
     "Lotus",
     "Ramsey Auto Sales",
     "Hondas of Dallas",
     "Framingham Auto Mall",
     "Ace Authorized Dealer",
     "Joe's Pizza",
     "ABC Towing Service",
     "Main St Gas Station Used Cars",
     "Bob's Auto Parts ",
     "Family Owned Used Cars",
     "Smith Used Car Lot",
     "Quality Motor Co",
     ""}

\* every combination of the fields of one place
AllDetails ==
    {Place(name, status, loc[1], loc[2], rating, reviews, website, phone) :
        name \in {<<>>} \cup {<<n>> : n \in RawNames},
        status \in {<<>>, <<"OPERATIONAL">>, <<"CLOSED_PERMANENTLY">>},
        loc \in {<<(<<AddrInZip>>), (<<118>>)>>, <<(<<AddrElsewhere>>), (<<2000>>)>>,
                 <<(<<AddrElsewhere>>), (<<2001>>)>>, <<(<<AddrInZip>>), (<<>>)>>,
                 <<(<<AddrElsewhere>>), (<<>>)>>, <<(<<>>), (<<>>)>>},
        rating \in {<<>>, <<0>>, <<34>>, <<35>>, <<40>>, <<45>>},
        reviews \in {<<>>, <<19>>, <<20>>, <<50>>, <<100>>},
        website \in {<<>>, <<SomeWebsite>>},
        phone \in {<<>>, <<SomePhone>>}}

(***************************************************************************)
(* Franchise detection on name_lower.                                      *)
(***************************************************************************)
has_franchise_indicator(name_lower) ==
    ContainsAny(name_lower, franchise_clear_indicators)

brand_patterns(name_lower, brand) ==
    \/ StartsWith(name_lower, brand \o " ")
    \/ StartsWith(name_lower, brand \o "s ")
    \/ Contains(name_lower, " " \o brand \o " ")
    \/ EndsWith(name_lower, " " \o brand)

BrandFranchise_mut(name_lower) ==
    \E brand \in franchise_brands : Contains(name_lower, brand)

\* Method 1: a brand with a clear franchise term or an obvious brand pattern
BrandFranchise(name_lower) ==
    \E brand \in franchise_brands :
        /\ Contains(name_lower, brand)
        /\ \/ has_franchise_indicator(name_lower)
           \/ brand_patterns(name_lower, brand)

\* Method 2: franchise-only patterns, no brand needed
FranchiseOnly(name_lower) ==
    ContainsAny(name_lower, franchise_only_patterns)

is_franchise(name_lower) ==
    BrandFranchise(name_lower) \/ FranchiseOnly(name_lower)

(***************************************************************************)
(* Non-dealer filter and relevance gate on name_lower.                     *)
(***************************************************************************)
exclusive_service_patterns(name_lower) ==
    \/ EndsWith(name_lower, " parts")
    \/ EndsWith(name_lower, " towing")
    \/ EndsWith(name_lower, " glass")
    \/ EndsWith(name_lower, " tires")
    \/ Contains(name_lower, "parts & service only")
    \/ Contains(name_lower, "service only")
    \/ Contains(name_lower, "repairs only")

should_skip_mut(name_lower) ==
    exclusive_service_patterns(name_lower)

should_skip(name_lower) ==
    \/ ContainsAny(name_lower, skip_keywords)
    \/ exclusive_service_patterns(name_lower)

has_independent_indicator(name_lower) ==
    ContainsAny(name_lower, independent_indicators)

is_likely_dealer(name_lower) ==
    has_independent_indicator(name_lower) \/ ContainsAny(name_lower, likely_dealer_words)

IsRelevant_mut(name_lower) ==
    TRUE

\* the candidate passes the "car-related at all" check
IsRelevant(name_lower) ==
    is_likely_dealer(name_lower) \/ ContainsAny(name_lower, car_related_words)

has_strong_independent(name_lower) ==
    ContainsAny(name_lower, strong_independent_words)

(***************************************************************************)
(* The name tests of one loop iteration, computed once per name.           *)
(***************************************************************************)
NameFacts(name) ==
    LET name_lower == Lower(Strip(name)) IN
    [is_franchise |-> is_franchise(name_lower),
     should_skip |-> should_skip(name_lower),
     relevant |-> IsRelevant(name_lower),
     has_independent_indicator |-> has_independent_indicator(name_lower),
     strong |-> has_strong_independent(name_lower)]

KnownNames ==
    RawNames \cup {Get(d.name, "") : d \in Catalog}

NameTable ==
    [name \in KnownNames |-> NameFacts(name)]

\* name = details.get('name', '').strip(); name_lower = name.lower()
Facts(details) ==
    NameTable[Get(details.name, "")]

(***************************************************************************)
(* Location check, distance and score.                                     *)
(***************************************************************************)
MaxDistance == 2000

\* round(distance, 1): hundredths to tenths, ties to even
Round1(d100) ==
    LET q == d100 \div 10
        r == d100 % 10
    IN  IF r < 5 THEN q
        ELSE IF r > 5 THEN q + 1
        ELSE IF q % 2 = 0 THEN q ELSE q + 1

IsClosed_mut(details) ==
    details.business_status = <<"CLOSED_TEMPORARILY">>

IsClosed(details) ==
    details.business_status = <<"CLOSED_PERMANENTLY">>

LocationRejected_mut(zip_code, details) ==
    IF details.location # <<>>
    THEN details.location[1] > MaxDistance
    ELSE TRUE

LocationRejected_keep(zip_code, details) ==
    IF details.location # <<>>
    THEN details.location[1] > MaxDistance
    ELSE FALSE

\* the candidate is filtered out by the location check
LocationRejected(zip_code, details) ==
    IF details.location # <<>>
    THEN details.location[1] > MaxDistance
    ELSE ~Contains(Get(details.formatted_address, ""), zip_code)

Distance(details) ==
    IF details.location # <<>> THEN details.location[1] ELSE 0

RatingBonus_mut(rating) ==
    IF rating # 0
    THEN IF rating > 45 THEN 20
         ELSE IF rating > 40 THEN 15
         ELSE IF rating > 35 THEN 10
         ELSE 0
    ELSE 0

RatingBonus(rating) ==
    IF rating # 0
    THEN IF rating >= 45 THEN 20
         ELSE IF rating >= 40 THEN 15
         ELSE IF rating >= 35 THEN 10
         ELSE 0
    ELSE 0

ReviewsBonus(reviews) ==
    IF reviews >= 100 THEN 15
    ELSE IF reviews >= 50 THEN 10
    ELSE IF reviews >= 20 THEN 5
    ELSE 0

\* prospect_score before the clamp
RawScore(details) ==
    50 + RatingBonus(Get(details.rating, 0))
       + ReviewsBonus(Get(details.user_ratings_total, 0))
       + (IF Truthy(details.website) THEN 10 ELSE 0)
       + (IF Truthy(details.formatted_phone_number) THEN 10 ELSE 0)
       + (IF Facts(details).has_independent_indicator THEN 15 ELSE 0)
       + (IF Facts(details).strong THEN 10 ELSE 0)

Min(a, b) ==
    IF a <= b THEN a ELSE b

StoredScore_mut(prospect_score) ==
    prospect_score

StoredScore(prospect_score) ==
    Min(prospect_score, 100)

Priority_mut(prospect_score) ==
    IF prospect_score > 70 THEN "High" ELSE "Standard"

Priority(prospect_score) ==
    IF prospect_score >= 70 THEN "High" ELSE "Standard"


\* which branch of the loop body one candidate takes
Outcome(zip_code, details) ==
    IF IsClosed(details) THEN "closed"
    ELSE IF LocationRejected(zip_code, details) THEN "location"
    ELSE IF Facts(details).is_franchise THEN "franchise"
    ELSE IF Facts(details).should_skip THEN "non_dealer"
    ELSE IF ~Facts(details).relevant THEN "irrelevant"
    ELSE "retained"

\* the dealer record appended for a retained candidate
Dealer(place_id, details) ==
    [place_id |-> place_id,
     name |-> Strip(Get(details.name, "")),
     address |-> Get(details.formatted_address, ""),
     phone |-> details.formatted_phone_number,
     website |-> details.website,
     rating |-> Get(details.rating, 0),
     user_ratings_total |-> Get(details.user_ratings_total, 0),
     location |-> details.location,
     distance |-> Round1(Distance(details)),
     prospect_score |-> StoredScore(RawScore(details)),
     priority |-> Priority(RawScore(details))]

(***************************************************************************)
(* processed_dealers.sort(key=lambda x: (-score, distance)): stable.       *)
(***************************************************************************)
KeyLess_mut(a, b) ==
    a.prospect_score > b.prospect_score

KeyLess(a, b) ==
    \/ a.prospect_score > b.prospect_score
    \/ a.prospect_score = b.prospect_score /\ a.distance < b.distance

RECURSIVE InsertSorted(_, _)
InsertSorted(x, s) ==
    IF s = <<>> THEN <<x>>
    ELSE IF KeyLess(x, Head(s)) THEN <<x>> \o s
    ELSE <<Head(s)>> \o InsertSorted(x, Tail(s))

RECURSIVE SortDealers(_)
SortDealers(s) ==
    IF s = <<>> THEN <<>>
    ELSE InsertSorted(s[Len(s)], SortDealers(SubSeq(s, 1, Len(s) - 1)))

(***************************************************************************)
(* State.                                                                  *)
(***************************************************************************)
VARIABLES
    pc,                 \* position inside search_independent_dealers
    zip_code,           \* the argument of the running call
    has_city,           \* geocoding gave both a city and a state
    qi,                 \* index of the current query, then of the current candidate
    page_token,         \* the last result carried a next_page_token
    pages,              \* pages fetched for the current query
    all_dealers,        \* keys of the all_dealers dict, in insertion order
    repeated,           \* a result named a place id that all_dealers already held
    fetched,            \* per place id: the details fetched and the branch taken
    processed_dealers,  \* the list being built
    returned,           \* the value returned by the call
    search_cache,       \* st.session_state.search_cache
    now                 \* the clock, in minutes

VARIABLES
    calls,              \* how many searches and map clicks the session has run
    contacted,          \* the running call has contacted the places provider
    cache_inputs        \* per ZIP: the candidates and details behind the stored result

VARIABLES
    prospects,          \* the rows of the prospects table, in id order
    communications,     \* the rows of the communications table, in id order
    searches,           \* the rows of the searches table, in id order
    search_results,     \* the rows of the search_results table, in id order
    crm_log,            \* the last CRMService call: what it was and how it ended
    recent_map_searches,  \* st.session_state.recent_map_searches
    session_prospects,  \* st.session_state.prospects
    map_log,            \* the last map click: its ZIP and what the handler did
    ticks               \* how often the clock has advanced

VARIABLES
    confirm,            \* the confirm_delete_* keys of st.session_state
    warned,             \* the targets whose confirmation warning is pending
    ui_log,             \* the last button click: its target and what it invoked
    delete_log,         \* the last delete call: its ids and how many rows went
    search_zip_codes    \* st.session_state.search_zip_codes

searchVars ==
    <<pc, zip_code, has_city, qi, page_token, pages, all_dealers, repeated, fetched,
      processed_dealers, returned, search_cache, now, calls, contacted, cache_inputs>>

\* what search_independent_dealers never reads or writes
ambient ==
    <<prospects, communications, searches, search_results, crm_log,
      recent_map_searches, session_prospects, map_log, ticks,
      confirm, warned, ui_log, delete_log, search_zip_codes>>

\* what only the buttons of the CRM pages and the delete calls write
uiVars ==
    <<confirm, warned, ui_log, delete_log, search_zip_codes>>

vars ==
    <<searchVars, ambient>>

Init ==
    /\ pc = "idle"
    /\ zip_code = ""
    /\ has_city = FALSE
    /\ qi = 0
    /\ page_token = FALSE
    /\ pages = 0
    /\ all_dealers = <<>>
    /\ repeated = FALSE
    /\ fetched = [p \in PlaceIds |-> <<>>]
    /\ processed_dealers = <<>>
    /\ returned = <<>>
    /\ search_cache = [z \in ZipCodes |-> <<>>]
    /\ now = 0
    /\ calls = 0
    /\ contacted = FALSE
    /\ cache_inputs = [z \in ZipCodes |-> <<>>]
    /\ prospects = <<>>
    /\ communications = <<>>
    /\ searches = <<>>
    /\ search_results = <<>>
    /\ crm_log = [op |-> "none", ok |-> TRUE, existed |-> FALSE, before |-> ""]
    /\ recent_map_searches = <<>>
    /\ session_prospects = <<>>
    /\ map_log = [zip_code |-> "", did |-> "none", searched |-> [z \in MapZips |-> -1]]
    /\ ticks = 0
    /\ confirm = [prospect |-> {}, bulk |-> FALSE, search |-> {}]
    /\ warned = [prospect |-> {}, bulk |-> <<>>, search |-> {}]
    /\ ui_log = [click |-> "none", selected |-> <<>>, search_id |-> 0,
                 invoked |-> FALSE, calls |-> 0]
    /\ delete_log = [prospect_ids |-> <<>>, count |-> 0, related |-> 0]
    /\ search_zip_codes = <<>>

AddPlace_mut(dealers, place_id) ==
    Append(dealers, place_id)

\* if place['place_id'] not in all_dealers: all_dealers[place['place_id']] = place
AddPlace(dealers, place_id) ==
    IF \E i \in 1..Len(dealers) : dealers[i] = place_id
    THEN dealers
    ELSE Append(dealers, place_id)

RECURSIVE AddPlaces(_, _)
AddPlaces(dealers, results) ==
    IF results = <<>> THEN dealers
    ELSE AddPlaces(AddPlace(dealers, Head(results)), Tail(results))

CacheHit_mut(z) ==
    /\ search_cache[z] # <<>>
    /\ now - search_cache[z][1].time <= CacheTTL

\* cache_key in search_cache and datetime.now() - cache_time < timedelta(hours=1)
CacheHit(z) ==
    /\ search_cache[z] # <<>>
    /\ now - search_cache[z][1].time < CacheTTL

\* entry of the call: cache lookup, then geocoding
StartSearch ==
    /\ pc = "idle"
    /\ calls < MaxCalls
    /\ calls' = calls + 1
    /\ \E z \in SearchZips :
        /\ zip_code' = z
        /\ contacted' = ~CacheHit(z)
        /\ IF CacheHit(z)
           THEN /\ returned' = search_cache[z][1].results
                /\ pc' = "done"
                /\ UNCHANGED <<has_city, qi>>
           ELSE \E geocode \in {"raises", "empty", "city", "no_city"} :
                IF geocode \in {"raises", "empty"}
                THEN /\ returned' = <<>>
                     /\ pc' = "done"
                     /\ UNCHANGED <<has_city, qi>>
                ELSE /\ has_city' = (geocode = "city")
                     /\ qi' = 1
                     /\ pc' = "text"
                     /\ UNCHANGED returned
    /\ all_dealers' = <<>>
    /\ repeated' = FALSE
    /\ fetched' = [p \in PlaceIds |-> <<>>]
    /\ processed_dealers' = <<>>
    /\ UNCHANGED <<page_token, pages, search_cache, now, cache_inputs, ambient>>

\* some place id of the results is already a key of all_dealers, or comes twice
Repeats(dealers, results) ==
    Len(AddPlaces(dealers, results)) < Len(dealers) + Len(results)

\* leave the current query of a loop of n queries
NextQuery(n, after) ==
    /\ page_token' = FALSE
    /\ pages' = 0
    /\ IF qi < n
       THEN qi' = qi + 1 /\ pc' = pc
       ELSE qi' = 1 /\ pc' = after

\* one gmaps_client.places call of the text-search loop (first or later page)
TextSearch(ids) ==
    /\ pc = "text"
    /\ \/ /\ UNCHANGED <<all_dealers, repeated>>
          /\ NextQuery(NumTextQueries, "radius")
       \/ \E results \in Pages(ids), token \in BOOLEAN :
            /\ all_dealers' = AddPlaces(all_dealers, results)
            /\ repeated' = (repeated \/ Repeats(all_dealers, results))
            /\ IF token /\ pages + 1 < MaxPages
               THEN page_token' = TRUE /\ pages' = pages + 1 /\ UNCHANGED <<qi, pc>>
               ELSE NextQuery(NumTextQueries, "radius")
    /\ UNCHANGED <<zip_code, has_city, fetched, processed_dealers, returned,
                   search_cache, now, calls, contacted, cache_inputs, ambient>>

\* one gmaps_client.places_nearby call of the radius loop
RadiusSearch(ids) ==
    /\ pc = "radius"
    /\ \/ /\ UNCHANGED <<all_dealers, repeated>>
          /\ NextQuery(NumRadiusSearches, IF has_city THEN "city" ELSE "process")
       \/ \E results \in Pages(ids), token \in BOOLEAN :
            /\ all_dealers' = AddPlaces(all_dealers, results)
            /\ repeated' = (repeated \/ Repeats(all_dealers, results))
            /\ IF token /\ pages + 1 < MaxPages
               THEN page_token' = TRUE /\ pages' = pages + 1 /\ UNCHANGED <<qi, pc>>
               ELSE NextQuery(NumRadiusSearches, IF has_city THEN "city" ELSE "process")
    /\ UNCHANGED <<zip_code, has_city, fetched, processed_dealers, returned,
                   search_cache, now, calls, contacted, cache_inputs, ambient>>

\* one gmaps_client.places call of the city loop (first page only)
CitySearch(ids) ==
    /\ pc = "city"
    /\ \/ UNCHANGED <<all_dealers, repeated>>
       \/ \E results \in Pages(ids) :
            /\ all_dealers' = AddPlaces(all_dealers, results)
            /\ repeated' = (repeated \/ Repeats(all_dealers, results))
    /\ NextQuery(NumCitySearches, "process")
    /\ UNCHANGED <<zip_code, has_city, fetched, processed_dealers, returned,
                   search_cache, now, calls, contacted, cache_inputs, ambient>>

DealerFails_mut(place_id) ==
    /\ fetched' = [fetched EXCEPT ![place_id] =
                    <<[details |-> NoDetails, outcome |-> "error"]>>]
    /\ pc' = "done"
    /\ returned' = <<>>
    /\ UNCHANGED <<processed_dealers, qi>>

\* the fetch or the processing of one candidate raises: warn and continue
DealerFails(place_id) ==
    /\ fetched' = [fetched EXCEPT ![place_id] =
                    <<[details |-> NoDetails, outcome |-> "error"]>>]
    /\ qi' = qi + 1
    /\ UNCHANGED <<processed_dealers, pc, returned>>

\* one iteration of the loop over all_dealers
ProcessDealer(pool) ==
    /\ pc = "process"
    /\ qi <= Len(all_dealers)
    /\ LET place_id == all_dealers[qi] IN
        \/ DealerFails(place_id)
        \/ \E details \in pool :
            LET outcome == Outcome(zip_code, details) IN
            /\ fetched' = [fetched EXCEPT ![place_id] =
                            <<[details |-> details, outcome |-> outcome]>>]
            /\ processed_dealers' =
                 IF outcome = "retained"
                 THEN Append(processed_dealers, Dealer(place_id, details))
                 ELSE processed_dealers
            /\ qi' = qi + 1
            /\ UNCHANGED <<pc, returned>>
    /\ UNCHANGED <<zip_code, has_city, page_token, pages, all_dealers, repeated,
                   search_cache, now, calls, contacted, cache_inputs, ambient>>

Finish_mut ==
    /\ pc = "process"
    /\ qi > Len(all_dealers)
    /\ LET sorted == SortDealers(IF search_cache[zip_code] # <<>>
                                 THEN search_cache[zip_code][1].results \o processed_dealers
                                 ELSE processed_dealers) IN
        /\ processed_dealers' = sorted
        /\ search_cache' = [search_cache EXCEPT ![zip_code] =
                              <<[time |-> now, results |-> sorted]>>]
        /\ returned' = sorted
    /\ cache_inputs' = [cache_inputs EXCEPT ![zip_code] =
                          <<[all_dealers |-> all_dealers, fetched |-> fetched,
                             again |-> /\ cache_inputs[zip_code] # <<>>
                                       /\ cache_inputs[zip_code][1].all_dealers = all_dealers
                                       /\ cache_inputs[zip_code][1].fetched = fetched]>>]
    /\ pc' = "done"
    /\ UNCHANGED <<zip_code, has_city, qi, page_token, pages, all_dealers, repeated,
                   fetched, now, calls, contacted, ambient>>

\* after the loop: sort, store in the cache, return
Finish ==
    /\ pc = "process"
    /\ qi > Len(all_dealers)
    /\ LET sorted == SortDealers(processed_dealers) IN
        /\ processed_dealers' = sorted
        /\ search_cache' = [search_cache EXCEPT ![zip_code] =
                              <<[time |-> now, results |-> sorted]>>]
        /\ returned' = sorted
    /\ cache_inputs' = [cache_inputs EXCEPT ![zip_code] =
                          <<[all_dealers |-> all_dealers, fetched |-> fetched,
                             again |-> /\ cache_inputs[zip_code] # <<>>
                                       /\ cache_inputs[zip_code][1].all_dealers = all_dealers
                                       /\ cache_inputs[zip_code][1].fetched = fetched]>>]
    /\ pc' = "done"
    /\ UNCHANGED <<zip_code, has_city, qi, page_token, pages, all_dealers, repeated,
                   fetched, now, calls, contacted, ambient>>

Next ==
    \/ StartSearch
    \/ TextSearch(PlaceIds)
    \/ RadiusSearch(PlaceIds)
    \/ CitySearch(PlaceIds)
    \/ ProcessDealer(Catalog)
    \/ Finish

Spec ==
    Init /\ [][Next]_vars

\* a search whose provider knows one place, with every combination of details
NextCandidate ==
    \/ StartSearch
    \/ TextSearch({1})
    \/ RadiusSearch({1})
    \/ CitySearch({1})
    \/ ProcessDealer(AllDetails)
    \/ Finish

SpecCandidate ==
    Init /\ [][NextCandidate]_vars

TypeOK ==
    /\ pc \in {"idle", "text", "radius", "city", "process", "done"}
    /\ \A i \in 1..Len(all_dealers) : all_dealers[i] \in PlaceIds

(***************************************************************************)
(* The session: searches follow one another while the clock advances       *)
(* between them.  The provider of a session knows two places and two sets  *)
(* of details that both pass the filters, with different scores.           *)
(***************************************************************************)
MaxTicks == 2

SessionPlaces ==
    {1, 2}

SessionCatalog ==
    {d \in Catalog : Get(d.name, "") \in {"Family Owned Used Cars", "Quality Motor Co"}}

\* minutes by which the clock advances between two calls of a session
SearchTicks ==
    {1, 59}

\* the caller is done with the returned list; the locals of the call are gone
Return ==
    /\ pc = "done"
    /\ pc' = "idle"
    /\ zip_code' = ""
    /\ has_city' = FALSE
    /\ qi' = 0
    /\ page_token' = FALSE
    /\ pages' = 0
    /\ all_dealers' = <<>>
    /\ repeated' = FALSE
    /\ fetched' = [p \in PlaceIds |-> <<>>]
    /\ processed_dealers' = <<>>
    /\ returned' = <<>>
    /\ contacted' = FALSE
    /\ UNCHANGED <<search_cache, now, calls, cache_inputs, ambient>>

Tick(steps) ==
    /\ pc = "idle"
    /\ ticks < MaxTicks
    /\ ticks' = ticks + 1
    /\ \E d \in steps : now' = now + d
    /\ UNCHANGED <<pc, zip_code, has_city, qi, page_token, pages, all_dealers, repeated,
                   fetched, processed_dealers, returned, search_cache, calls, contacted,
                   cache_inputs, prospects, communications, searches, search_results,
                   crm_log, recent_map_searches, session_prospects, map_log, uiVars>>

\* the "Clear All" button: the listed session keys are deleted, and the
\* rerun recreates the defaults of init_session_state
ClearAll ==
    /\ pc = "idle"
    /\ search_cache # [z \in ZipCodes |-> <<>>] \/ session_prospects # <<>>
    /\ search_cache' = [z \in ZipCodes |-> <<>>]
    /\ cache_inputs' = [z \in ZipCodes |-> <<>>]
    /\ session_prospects' = <<>>
    /\ UNCHANGED <<pc, zip_code, has_city, qi, page_token, pages, all_dealers, repeated,
                   fetched, processed_dealers, returned, now, calls, contacted,
                   prospects, communications, searches, search_results, crm_log,
                   recent_map_searches, map_log, ticks, uiVars>>

NextSession ==
    \/ StartSearch
    \/ TextSearch(SessionPlaces)
    \/ RadiusSearch(SessionPlaces)
    \/ CitySearch(SessionPlaces)
    \/ ProcessDealer(SessionCatalog)
    \/ Finish
    \/ Return
    \/ Tick(SearchTicks)
    \/ ClearAll

SpecSession ==
    Init /\ [][NextSession]_vars

(***************************************************************************)
(* The CRM service: the prospects and communications tables behind one     *)
(* SQLAlchemy session (autoflush off, one transaction per call).  Each     *)
(* CRMService call is one action.  A call fails where its data make it     *)
(* fail: a key that is no column (TypeError in the constructor), a NULL in *)
(* a NOT NULL column or a second row with a stored place_id                *)
(* (IntegrityError at commit).  The database itself does not fail.         *)
(***************************************************************************)
MaxStored == 2
MaxBatch == 2
MaxComms == 1
MaxLinks == 2
\* ids grow past the rows that were deleted; the calls stop at this id
MaxId == 2

StoredPlaceIds ==
    1..MaxStored

\* the prospect ids named by the status and communication calls
ProspectIds ==
    {1, 2}

ProspectStatuses ==
    {"prospect", "contacted", "qualified", "visited", "dnc"}

\* the dicts handed to save_prospect: place_id and name may be None, and
\* the dict may hold a key that is no column of Prospect
ProspectData ==
    [place_id : {<<>>} \cup {<<p>> : p \in StoredPlaceIds},
     name : {<<>>, <<"Smith Auto Sales">>, <<"Smith Motors">>, <<"Smith Cars">>},
     unknown_key : BOOLEAN]

\* the items of a batch: every well-formed dict, and one dict for each way
\* of being malformed (no place_id, no name, a key that is no column)
BatchData ==
    {d \in ProspectData :
        \/ d.place_id # <<>> /\ d.name # <<>> /\ ~d.unknown_key
        \/ d = [place_id |-> <<>>, name |-> <<"Smith Auto Sales">>, unknown_key |-> FALSE]
        \/ d = [place_id |-> <<1>>, name |-> <<>>, unknown_key |-> FALSE]
        \/ d = [place_id |-> <<1>>, name |-> <<"Smith Auto Sales">>, unknown_key |-> TRUE]}

Batches ==
    UNION {[1..n -> BatchData] : n \in 0..MaxBatch}

\* the dicts that create the prospects of the status and communication calls
Registered ==
    {[place_id |-> <<p>>, name |-> <<"Smith Auto Sales">>, unknown_key |-> FALSE] :
        p \in ProspectIds}

\* the dicts handed to log_communication
CommData ==
    [channel : {<<>>, <<"call">>},
     status : {<<>>, <<"sent">>, <<"delivered">>, <<"answered">>, <<"failed">>}]

NextId(rows) ==
    IF rows = <<>> THEN 1 ELSE rows[Len(rows)].id + 1

\* session.query(Prospect).filter(Prospect.place_id == place_id).first():
\* the query reads the committed rows, never the pending inserts
Existing(rows, committed, place_id) ==
    {i \in 1..committed : rows[i].place_id = place_id /\ place_id # <<>>}

\* for key, value in prospect_data.items():
\*     if hasattr(existing, key) and value is not None: setattr(...)
UpdateRow(row, data) ==
    [row EXCEPT !.place_id = IF data.place_id # <<>> THEN data.place_id ELSE @,
                !.name = IF data.name # <<>> THEN data.name ELSE @]

\* Prospect(**prospect_data), with the column default of status
NewRow(rows, data) ==
    [id |-> NextId(rows), place_id |-> data.place_id, name |-> data.name,
     status |-> "prospect"]

\* the loop of bulk_save_prospects over the session: the rows as the session
\* holds them, or a TypeError
RECURSIVE Stage(_, _, _)
Stage(rows, committed, batch) ==
    IF batch = <<>> THEN [ok |-> TRUE, rows |-> rows]
    ELSE LET data == Head(batch)
             found == Existing(rows, committed, data.place_id) IN
         IF found # {}
         THEN LET i == CHOOSE i \in found : TRUE IN
              Stage([rows EXCEPT ![i] = UpdateRow(rows[i], data)], committed, Tail(batch))
         ELSE IF data.unknown_key
              THEN [ok |-> FALSE, rows |-> rows]
              ELSE Stage(Append(rows, NewRow(rows, data)), committed, Tail(batch))

UniquePlaceId_mut(rows) ==
    TRUE

\* place_id = Column(String(255), unique=True, ...)
UniquePlaceId(rows) ==
    \A i, j \in 1..Len(rows) : i # j => rows[i].place_id # rows[j].place_id

\* place_id and name are nullable=False
NotNull(rows) ==
    \A i \in 1..Len(rows) : rows[i].place_id # <<>> /\ rows[i].name # <<>>

\* session.commit(), or session.rollback() in the except clause
Commit(staged) ==
    IF staged.ok /\ UniquePlaceId(staged.rows) /\ NotNull(staged.rows)
    THEN [ok |-> TRUE, rows |-> staged.rows]
    ELSE [ok |-> FALSE, rows |-> prospects]

save_prospect(prospect_data) ==
    /\ pc = "idle"
    /\ LET result == Commit(Stage(prospects, Len(prospects), <<prospect_data>>)) IN
        /\ prospects' = result.rows
        /\ crm_log' = [op |-> "save_prospect", ok |-> result.ok,
                       existed |-> Existing(prospects, Len(prospects),
                                            prospect_data.place_id) # {},
                       before |-> ""]
    /\ UNCHANGED <<searchVars, communications, searches, search_results,
                   recent_map_searches, session_prospects, map_log, ticks, uiVars>>

bulk_save_prospects(prospects_data) ==
    /\ pc = "idle"
    /\ LET result == Commit(Stage(prospects, Len(prospects), prospects_data)) IN
        /\ prospects' = result.rows
        /\ crm_log' = [op |-> "bulk_save_prospects", ok |-> result.ok,
                       existed |-> \E i \in 1..Len(prospects_data) :
                                      Existing(prospects, Len(prospects),
                                               prospects_data[i].place_id) # {},
                       before |-> ""]
    /\ UNCHANGED <<searchVars, communications, searches, search_results,
                   recent_map_searches, session_prospects, map_log, ticks, uiVars>>

\* the body of update_prospect_status on the rows
SetStatus(rows, prospect_id, status) ==
    [i \in 1..Len(rows) |->
        IF rows[i].id = prospect_id THEN [rows[i] EXCEPT !.status = status] ELSE rows[i]]

StatusOf(rows, prospect_id) ==
    IF \E i \in 1..Len(rows) : rows[i].id = prospect_id
    THEN (CHOOSE r \in {rows[i] : i \in 1..Len(rows)} : r.id = prospect_id).status
    ELSE ""

update_prospect_status(prospect_id, status) ==
    /\ pc = "idle"
    /\ prospects' = SetStatus(prospects, prospect_id, status)
    /\ crm_log' = [op |-> "update_prospect_status",
                   ok |-> StatusOf(prospects, prospect_id) # "",
                   existed |-> StatusOf(prospects, prospect_id) # "",
                   before |-> StatusOf(prospects, prospect_id)]
    /\ UNCHANGED <<searchVars, communications, searches, search_results,
                   recent_map_searches, session_prospects, map_log, ticks, uiVars>>

ContactMade_mut(comm_data) ==
    comm_data.status \in {<<"sent">>, <<"delivered">>}

\* comm_data.get('status') in ['sent', 'delivered', 'answered']
ContactMade(comm_data) ==
    comm_data.status \in {<<"sent">>, <<"delivered">>, <<"answered">>}

log_communication(prospect_id, comm_data) ==
    /\ pc = "idle"
    /\ Len(communications) < MaxComms
    /\ IF comm_data.channel = <<>>
       THEN /\ crm_log' = [op |-> "log_communication", ok |-> FALSE,
                           existed |-> StatusOf(prospects, prospect_id) # "",
                           before |-> StatusOf(prospects, prospect_id)]
            /\ UNCHANGED <<prospects, communications>>
       ELSE /\ communications' =
                 Append(communications,
                        [id |-> NextId(communications), prospect_id |-> prospect_id,
                         channel |-> comm_data.channel, status |-> comm_data.status])
            /\ prospects' = IF ContactMade(comm_data)
                            THEN SetStatus(prospects, prospect_id, "contacted")
                            ELSE prospects
            /\ crm_log' = [op |-> "log_communication", ok |-> TRUE,
                           existed |-> StatusOf(prospects, prospect_id) # "",
                           before |-> StatusOf(prospects, prospect_id)]
    /\ UNCHANGED <<searchVars, searches, search_results, recent_map_searches,
                   session_prospects, map_log, ticks, uiVars>>

\* SearchResult(search_id=..., prospect_id=..., was_new_prospect=is_new)
link_search_prospect(search_id, prospect_id, is_new) ==
    /\ pc = "idle"
    /\ Len(search_results) < MaxLinks
    /\ search_results' =
         Append(search_results,
                [id |-> NextId(search_results), search_id |-> search_id,
                 prospect_id |-> prospect_id, was_new_prospect |-> is_new])
    /\ crm_log' = [op |-> "link_search_prospect", ok |-> TRUE,
                   existed |-> StatusOf(prospects, prospect_id) # "",
                   before |-> StatusOf(prospects, prospect_id)]
    /\ UNCHANGED <<searchVars, prospects, communications, searches,
                   recent_map_searches, session_prospects, map_log, ticks, uiVars>>

\* the three tables a delete call works on
Tables ==
    [prospects |-> prospects, communications |-> communications,
     search_results |-> search_results]

DeleteFrom_mut(db, prospect_id) ==
    [prospects |-> SelectSeq(db.prospects, LAMBDA r : r.id # prospect_id),
     communications |->
        SelectSeq(db.communications, LAMBDA r : r.prospect_id # prospect_id),
     search_results |-> db.search_results]

\* the three query(...).filter(...).delete() calls of delete_prospect
DeleteFrom(db, prospect_id) ==
    [prospects |-> SelectSeq(db.prospects, LAMBDA r : r.id # prospect_id),
     communications |->
        SelectSeq(db.communications, LAMBDA r : r.prospect_id # prospect_id),
     search_results |->
        SelectSeq(db.search_results, LAMBDA r : r.prospect_id # prospect_id)]

\* result > 0, where result is the number of prospects rows deleted
Deleted(db, prospect_id) ==
    \E i \in 1..Len(db.prospects) : db.prospects[i].id = prospect_id

\* the communications and search_results rows that name the prospect
Related(db, prospect_id) ==
    Len(SelectSeq(db.communications, LAMBDA r : r.prospect_id = prospect_id))
    + Len(SelectSeq(db.search_results, LAMBDA r : r.prospect_id = prospect_id))

\* for prospect_id in prospect_ids: if self.delete_prospect(prospect_id): ...
RECURSIVE BulkDelete(_, _)
BulkDelete(acc, prospect_ids) ==
    IF prospect_ids = <<>> THEN acc
    ELSE BulkDelete([db |-> DeleteFrom(acc.db, Head(prospect_ids)),
                     deleted_count |-> acc.deleted_count
                        + (IF Deleted(acc.db, Head(prospect_ids)) THEN 1 ELSE 0),
                     related |-> acc.related + Related(acc.db, Head(prospect_ids))],
                    Tail(prospect_ids))

\* the tables and the logs after a delete call; the buttons add their own part
DeleteCall(op, prospect_ids) ==
    LET done == BulkDelete([db |-> Tables, deleted_count |-> 0, related |-> 0],
                           prospect_ids) IN
    /\ prospects' = done.db.prospects
    /\ communications' = done.db.communications
    /\ search_results' = done.db.search_results
    /\ crm_log' = [op |-> op, ok |-> done.deleted_count > 0,
                   existed |-> \E i \in 1..Len(prospect_ids) :
                                  Deleted(Tables, prospect_ids[i]),
                   before |-> ""]
    /\ delete_log' = [prospect_ids |-> prospect_ids, count |-> done.deleted_count,
                      related |-> done.related]

delete_prospect(prospect_id) ==
    /\ pc = "idle"
    /\ DeleteCall("delete_prospect", <<prospect_id>>)
    /\ UNCHANGED <<searchVars, searches, recent_map_searches, session_prospects,
                   map_log, ticks, confirm, warned, ui_log, search_zip_codes>>

bulk_delete_prospects(prospect_ids) ==
    /\ pc = "idle"
    /\ DeleteCall("bulk_delete_prospects", prospect_ids)
    /\ UNCHANGED <<searchVars, searches, recent_map_searches, session_prospects,
                   map_log, ticks, confirm, warned, ui_log, search_zip_codes>>

\* the lists of ids handed to bulk_delete_prospects
IdLists ==
    UNION {[1..n -> ProspectIds] : n \in 0..2}

\* a communication that leaves the status of its prospect alone
FailedCall ==
    [channel |-> <<"call">>, status |-> <<"failed">>]

\* prospects are created, communications and links are stored for them, and
\* prospects are deleted, one by one or several in one call
NextDelete ==
    \/ /\ NextId(prospects) <= MaxId
       /\ \E prospect_data \in Registered : save_prospect(prospect_data)
    \/ /\ NextId(communications) <= MaxId
       /\ \E prospect_id \in ProspectIds : log_communication(prospect_id, FailedCall)
    \/ /\ NextId(search_results) <= MaxId
       /\ \E prospect_id \in ProspectIds : link_search_prospect(1, prospect_id, TRUE)
    \/ \E prospect_id \in ProspectIds : delete_prospect(prospect_id)
    \/ \E prospect_ids \in IdLists : bulk_delete_prospects(prospect_ids)

SpecDelete ==
    Init /\ [][NextDelete]_vars

\* any sequence of save_prospect and bulk_save_prospects calls
NextCRM ==
    \/ \E prospect_data \in ProspectData : save_prospect(prospect_data)
    \/ \E prospects_data \in Batches : bulk_save_prospects(prospects_data)

SpecCRM ==
    Init /\ [][NextCRM]_vars

\* prospects are created, their status is set, communications are logged
NextComm ==
    \/ \E prospect_data \in Registered : save_prospect(prospect_data)
    \/ \E prospect_id \in ProspectIds, status \in ProspectStatuses :
        update_prospect_status(prospect_id, status)
    \/ \E prospect_id \in ProspectIds, comm_data \in CommData :
        log_communication(prospect_id, comm_data)

SpecComm ==
    Init /\ [][NextComm]_vars

(***************************************************************************)
(* The map click handler.  handle_map_click is one action: it receives the *)
(* search function as an argument, so the search is a call that returns a  *)
(* list of dealer records or raises.  The CRM calls of the handler are     *)
(* made with well-formed data and succeed.  map_log remembers what the     *)
(* last click did and when a search last returned for each ZIP.            *)
(***************************************************************************)
\* (current_time - search_time).total_seconds() < 300, in minutes
MapWindow == 5

MapTicks ==
    {1, 4}

\* what search_function(zip_code) can give back: a list of dealer records
SearchOutcomes ==
    LET a == CHOOSE d \in SessionCatalog : Get(d.name, "") = "Family Owned Used Cars"
        b == CHOOSE d \in SessionCatalog : Get(d.name, "") = "Quality Motor Co" IN
    {<<>>, <<Dealer(1, a)>>, <<Dealer(2, b)>>, <<Dealer(1, a), Dealer(2, b)>>}

\* the entries younger than five minutes
Pruned(recent_searches) ==
    SelectSeq(recent_searches, LAMBDA e : now - e.time < MapWindow)

\* for search_time, search_zip in recent_searches: if search_zip == zip_code
RecentlySearched(recent_searches, z) ==
    \E i \in 1..Len(Pruned(recent_searches)) : Pruned(recent_searches)[i].zip_code = z

\* crm_service.save_search(search_data), with the counts written afterwards
SearchRow(z, new_dealers, new_count, duplicate_count) ==
    [id |-> NextId(searches), zip_codes |-> <<z>>, source |-> "map_click",
     total_found |-> Len(new_dealers), new_prospects |-> new_count,
     duplicate_prospects |-> duplicate_count]

\* the loop over new_dealers: link the stored prospect, or save a new one
\* and link it
RECURSIVE SaveDealers(_, _, _)
SaveDealers(acc, search_id, dealers) ==
    IF dealers = <<>> THEN acc
    ELSE LET dealer == Head(dealers)
             found == Existing(acc.rows, Len(acc.rows), <<dealer.place_id>>) IN
         IF found # {}
         THEN LET existing_prospect == acc.rows[CHOOSE i \in found : TRUE] IN
              SaveDealers([acc EXCEPT
                             !.links = Append(@, [id |-> NextId(acc.links),
                                                  search_id |-> search_id,
                                                  prospect_id |-> existing_prospect.id,
                                                  was_new_prospect |-> FALSE]),
                             !.duplicate_count = @ + 1],
                          search_id, Tail(dealers))
         ELSE LET saved_prospect ==
                      NewRow(acc.rows, [place_id |-> <<dealer.place_id>>,
                                        name |-> <<dealer.name>>]) IN
              SaveDealers([acc EXCEPT
                             !.rows = Append(@, saved_prospect),
                             !.links = Append(@, [id |-> NextId(acc.links),
                                                  search_id |-> search_id,
                                                  prospect_id |-> saved_prospect.id,
                                                  was_new_prospect |-> TRUE]),
                             !.new_count = @ + 1],
                          search_id, Tail(dealers))

\* st.session_state.prospects.extend(new_dealers_to_add)
ExtendProspects(session, new_dealers) ==
    session \o SelectSeq(new_dealers,
                         LAMBDA d : \A i \in 1..Len(session) :
                                        session[i].place_id # d.place_id)

handle_map_click ==
    /\ pc = "idle"
    /\ calls < MaxCalls
    /\ calls' = calls + 1
    /\ \E z \in MapZips \cup {""} :
        IF z = ""
        THEN /\ map_log' = [map_log EXCEPT !.zip_code = z, !.did = "no_zip"]
             /\ UNCHANGED <<prospects, searches, search_results, recent_map_searches,
                            session_prospects>>
        ELSE IF RecentlySearched(recent_map_searches, z)
        THEN /\ map_log' = [map_log EXCEPT !.zip_code = z, !.did = "was_recent"]
             /\ UNCHANGED <<prospects, searches, search_results, recent_map_searches,
                            session_prospects>>
        ELSE \E new_dealers \in SearchOutcomes, raises \in BOOLEAN :
            IF raises
            THEN /\ map_log' = [map_log EXCEPT !.zip_code = z, !.did = "search_raised"]
                 /\ UNCHANGED <<prospects, searches, search_results, recent_map_searches,
                                session_prospects>>
            ELSE IF new_dealers = <<>>
            THEN /\ map_log' = [zip_code |-> z, did |-> "searched_none",
                                searched |-> [map_log.searched EXCEPT ![z] = now]]
                 /\ UNCHANGED <<prospects, searches, search_results, recent_map_searches,
                                session_prospects>>
            ELSE LET saved == SaveDealers([rows |-> prospects, links |-> search_results,
                                           new_count |-> 0, duplicate_count |-> 0],
                                          NextId(searches), new_dealers) IN
                 /\ searches' = Append(searches,
                                       SearchRow(z, new_dealers, saved.new_count,
                                                 saved.duplicate_count))
                 /\ prospects' = saved.rows
                 /\ search_results' = saved.links
                 /\ recent_map_searches' =
                      Append(Pruned(recent_map_searches), [time |-> now, zip_code |-> z])
                 /\ session_prospects' = ExtendProspects(session_prospects, new_dealers)
                 /\ map_log' = [zip_code |-> z, did |-> "searched",
                                searched |-> [map_log.searched EXCEPT ![z] = now]]
    /\ UNCHANGED <<pc, zip_code, has_city, qi, page_token, pages, all_dealers, repeated,
                   fetched, processed_dealers, returned, search_cache, now, contacted,
                   cache_inputs, communications, crm_log, ticks, uiVars>>

NextMap ==
    \/ handle_map_click
    \/ Tick(MapTicks)

SpecMap ==
    Init /\ [][NextMap]_vars

(***************************************************************************)
(* The delete buttons of the CRM pages.  A click is one script run: the    *)
(* button's branch reads and writes its confirm_delete key and may call    *)
(* the delete function.  The rows come from map clicks.  warned remembers  *)
(* for which targets the warning was shown and no deletion has followed.   *)
(***************************************************************************)
Range(s) ==
    {s[i] : i \in 1..Len(s)}

ProspectRowIds ==
    {prospects[i].id : i \in 1..Len(prospects)}

SearchRowIds ==
    {searches[i].id : i \in 1..Len(searches)}

\* what st.multiselect can return: ids of the table's rows, none twice
Selections ==
    {s \in UNION {[1..n -> ProspectRowIds] : n \in 1..Len(prospects)} :
        \A i, j \in 1..Len(s) : i # j => s[i] # s[j]}

Click(button, selected, search_id, invoked) ==
    [click |-> button, selected |-> selected, search_id |-> search_id,
     invoked |-> invoked, calls |-> calls]

\* the Delete button of a prospect card
ClickDelete(prospect_id) ==
    /\ pc = "idle"
    /\ prospect_id \in ProspectRowIds
    /\ IF prospect_id \notin confirm.prospect
       THEN /\ confirm' = [confirm EXCEPT !.prospect = @ \cup {prospect_id}]
            /\ warned' = [warned EXCEPT !.prospect = @ \cup {prospect_id}]
            /\ ui_log' = Click("delete", <<prospect_id>>, 0, FALSE)
            /\ UNCHANGED <<prospects, communications, search_results, crm_log,
                           delete_log>>
       ELSE /\ DeleteCall("delete_prospect", <<prospect_id>>)
            /\ confirm' = IF Deleted(Tables, prospect_id)
                          THEN [confirm EXCEPT !.prospect = @ \ {prospect_id}]
                          ELSE confirm
            /\ warned' = [warned EXCEPT !.prospect = @ \ {prospect_id}]
            /\ ui_log' = Click("delete", <<prospect_id>>, 0, TRUE)
    /\ UNCHANGED <<searchVars, searches, recent_map_searches, session_prospects,
                   map_log, ticks, search_zip_codes>>

\* the Delete Selected button under the prospects table
ClickDeleteSelected(selected_ids) ==
    /\ pc = "idle"
    /\ selected_ids # <<>>
    /\ IF ~confirm.bulk
       THEN /\ confirm' = [confirm EXCEPT !.bulk = TRUE]
            /\ warned' = [warned EXCEPT !.bulk = <<Range(selected_ids)>>]
            /\ ui_log' = Click("delete_selected", selected_ids, 0, FALSE)
            /\ UNCHANGED <<prospects, communications, search_results, crm_log,
                           delete_log>>
       ELSE LET deleted_count ==
                    BulkDelete([db |-> Tables, deleted_count |-> 0, related |-> 0],
                               selected_ids).deleted_count IN
            /\ DeleteCall("bulk_delete_prospects", selected_ids)
            /\ confirm' = IF deleted_count > 0
                          THEN [confirm EXCEPT !.bulk = FALSE]
                          ELSE confirm
            /\ warned' = [warned EXCEPT !.bulk = <<>>,
                                        !.prospect = @ \ Range(selected_ids)]
            /\ ui_log' = Click("delete_selected", selected_ids, 0, TRUE)
    /\ UNCHANGED <<searchVars, searches, recent_map_searches, session_prospects,
                   map_log, ticks, search_zip_codes>>

\* delete_search: the search_results rows of the search, then its row
DeleteSearch(search_id) ==
    /\ search_results' = SelectSeq(search_results, LAMBDA r : r.search_id # search_id)
    /\ searches' = SelectSeq(searches, LAMBDA r : r.id # search_id)
    /\ crm_log' = [op |-> "delete_search", ok |-> search_id \in SearchRowIds,
                   existed |-> search_id \in SearchRowIds, before |-> ""]

\* the Delete Search button of the search details
ClickDeleteSearch(search_id) ==
    /\ pc = "idle"
    /\ search_id \in SearchRowIds
    /\ IF search_id \notin confirm.search
       THEN /\ confirm' = [confirm EXCEPT !.search = @ \cup {search_id}]
            /\ warned' = [warned EXCEPT !.search = @ \cup {search_id}]
            /\ ui_log' = Click("delete_search", <<>>, search_id, FALSE)
            /\ UNCHANGED <<searches, search_results, crm_log>>
       ELSE /\ DeleteSearch(search_id)
            /\ confirm' = IF search_id \in SearchRowIds
                          THEN [confirm EXCEPT !.search = @ \ {search_id}]
                          ELSE confirm
            /\ warned' = [warned EXCEPT !.search = @ \ {search_id}]
            /\ ui_log' = Click("delete_search", <<>>, search_id, TRUE)
    /\ UNCHANGED <<searchVars, prospects, communications, recent_map_searches,
                   session_prospects, map_log, ticks, delete_log, search_zip_codes>>

NextUI ==
    \/ handle_map_click
    \/ \E prospect_id \in ProspectRowIds : ClickDelete(prospect_id)
    \/ \E selected_ids \in Selections : ClickDeleteSelected(selected_ids)
    \/ \E search_id \in SearchRowIds : ClickDeleteSearch(search_id)

SpecUI ==
    Init /\ [][NextUI]_vars

(***************************************************************************)
(* The "Search Territories" button.  The handler is one action: it calls   *)
(* search_independent_dealers once per ZIP code, and each call either      *)
(* returns the stored list of its ZIP, or fails at geocoding and returns   *)
(* the empty list, or returns a ranked list without repeated place ids and *)
(* stores it.  The handler writes source_zip into the returned records,    *)
(* which are the records the cache holds.                                  *)
(***************************************************************************)
MaxZips == 3

\* what the three ZIP inputs can hold: one to three valid codes, any twice
ZipLists ==
    UNION {[1..n -> ZipCodes] : n \in 1..MaxZips}

\* what a call that contacts the provider can come back with: a failure, or
\* one of the lists that hold the second dealer, so that the lists of two
\* ZIP codes overlap
CallOutcomes ==
    {[failed |-> TRUE, dealers |-> <<>>]}
        \cup {[failed |-> FALSE, dealers |-> d] :
                d \in {e \in SearchOutcomes : e # <<>> /\ e[Len(e)].place_id = 2}}

\* for prospect in prospects: prospect['source_zip'] = zip_code
WithSourceZip(dealers, z) ==
    [i \in 1..Len(dealers) |-> [source_zip |-> z] @@ dealers[i]]

\* the loop over zip_codes
RECURSIVE SearchEach(_, _, _)
SearchEach(acc, zip_codes, outcomes) ==
    IF zip_codes = <<>> THEN acc
    ELSE LET z == Head(zip_codes)
             hit == /\ acc.cache[z] # <<>>
                    /\ now - acc.cache[z][1].time < CacheTTL
             found == IF hit THEN acc.cache[z][1].results ELSE Head(outcomes).dealers
             tagged == WithSourceZip(found, z)
             cache == IF hit
                      THEN [acc.cache EXCEPT ![z] =
                              <<[time |-> acc.cache[z][1].time, results |-> tagged]>>]
                      ELSE IF Head(outcomes).failed THEN acc.cache
                      ELSE [acc.cache EXCEPT ![z] =
                              <<[time |-> now, results |-> tagged]>>] IN
         SearchEach([cache |-> cache, all_prospects |-> acc.all_prospects \o tagged],
                    Tail(zip_codes), Tail(outcomes))

SeenOrAppend_mut(unique, prospect) ==
    Append(unique, prospect)

\* if prospect['place_id'] not in seen_ids: ... unique_prospects.append(prospect)
SeenOrAppend(unique, prospect) ==
    IF \E i \in 1..Len(unique) : unique[i].place_id = prospect.place_id
    THEN unique
    ELSE Append(unique, prospect)

\* the loop over all_prospects: the first record of every place_id, in order
RECURSIVE unique_prospects(_)
unique_prospects(all_prospects) ==
    IF all_prospects = <<>> THEN <<>>
    ELSE SeenOrAppend(unique_prospects(SubSeq(all_prospects, 1, Len(all_prospects) - 1)),
                      all_prospects[Len(all_prospects)])

search_territories(zip_codes) ==
    /\ pc = "idle"
    /\ calls < MaxCalls
    /\ calls' = calls + 1
    /\ \E outcomes \in [1..Len(zip_codes) -> CallOutcomes] :
        LET done == SearchEach([cache |-> search_cache, all_prospects |-> <<>>],
                               zip_codes, outcomes) IN
        /\ search_cache' = done.cache
        /\ cache_inputs' = [z \in ZipCodes |->
                              IF done.cache[z] = search_cache[z]
                              THEN cache_inputs[z] ELSE <<>>]
        /\ session_prospects' = unique_prospects(done.all_prospects)
    /\ search_zip_codes' = zip_codes
    /\ UNCHANGED <<pc, zip_code, has_city, qi, page_token, pages, all_dealers, repeated,
                   fetched, processed_dealers, returned, now, contacted,
                   prospects, communications, searches, search_results, crm_log,
                   recent_map_searches, map_log, ticks, confirm, warned, ui_log,
                   delete_log>>

\* searches of one to three ZIP codes, map clicks and "Clear All", within
\* the hour in which the cache keeps its lists
NextProspects ==
    \/ \E zip_codes \in ZipLists : search_territories(zip_codes)
    \/ handle_map_click
    \/ ClearAll

SpecProspects ==
    Init /\ [][NextProspects]_vars

(***************************************************************************)
(* The "Save Selected to CRM" button.  The dealers on the page are the     *)
(* session's prospects; selected_dealers is what the checkboxes and        *)
(* "Select All" have left, which may name dealers no longer on the page.   *)
(***************************************************************************)
\* search_data as the handler holds it at each of its two save_search calls
ManualSearchRow(id, total_found, new_count, duplicate_count) ==
    [id |-> id, zip_codes |-> search_zip_codes, source |-> "none", total_found |-> total_found,
     new_prospects |-> new_count, duplicate_prospects |-> duplicate_count]

\* the loop over saved_prospects: is_new is looked up after the bulk save
RECURSIVE LinkSaved(_, _, _, _)
LinkSaved(links, rows, search_id, place_ids) ==
    IF place_ids = <<>> THEN links
    ELSE LET saved_prospect ==
                 rows[CHOOSE i \in 1..Len(rows) : rows[i].place_id = <<Head(place_ids)>>]
             is_new == Existing(rows, Len(rows), saved_prospect.place_id) = {} IN
         LinkSaved(Append(links, [id |-> NextId(links), search_id |-> search_id,
                                  prospect_id |-> saved_prospect.id,
                                  was_new_prospect |-> is_new]),
                   rows, search_id, Tail(place_ids))

save_selected(selected_dealers) ==
    /\ pc = "idle"
    /\ calls < MaxCalls
    /\ calls' = calls + 1
    /\ session_prospects # <<>>
    /\ LET selected_prospects ==
               SelectSeq(session_prospects, LAMBDA p : p.place_id \in selected_dealers)
           place_ids ==
               [i \in 1..Len(selected_prospects) |-> selected_prospects[i].place_id]
           prospects_to_save ==
               [i \in 1..Len(selected_prospects) |->
                   [place_id |-> <<selected_prospects[i].place_id>>,
                    name |-> <<selected_prospects[i].name>>,
                    unknown_key |-> FALSE]]
           new_count ==
               Cardinality({i \in 1..Len(selected_prospects) :
                   Existing(prospects, Len(prospects),
                            <<selected_prospects[i].place_id>>) = {}})
           search_record ==
               ManualSearchRow(NextId(searches), Len(selected_prospects), 0, 0)
           result == Commit(Stage(prospects, Len(prospects), prospects_to_save)) IN
        /\ prospects' = result.rows
        /\ IF result.ok
           THEN /\ search_results' =
                     LinkSaved(search_results, result.rows, search_record.id, place_ids)
                /\ searches' =
                     searches \o
                     <<search_record,
                       ManualSearchRow(search_record.id + 1, Len(selected_prospects),
                                       new_count, Len(selected_prospects) - new_count)>>
           ELSE /\ searches' = Append(searches, search_record)
                /\ UNCHANGED search_results
        /\ crm_log' = [op |-> "save_selected", ok |-> result.ok,
                       existed |-> new_count < Len(selected_prospects), before |-> ""]
        /\ ui_log' = Click("save_selected", place_ids, search_record.id, TRUE)
    /\ UNCHANGED <<pc, zip_code, has_city, qi, page_token, pages, all_dealers, repeated,
                   fetched, processed_dealers, returned, search_cache, now, contacted,
                   cache_inputs, communications, recent_map_searches, session_prospects,
                   map_log, ticks, confirm, warned, delete_log, search_zip_codes>>

NextSave ==
    \/ \E z \in ZipCodes : search_territories(<<z>>)
    \/ handle_map_click
    \/ \E selected_dealers \in SUBSET SessionPlaces \ {{}} : save_selected(selected_dealers)

SpecSave ==
    Init /\ [][NextSave]_vars

(***************************************************************************)
(* The "Clear Cache" button: st.button(...) whose return value is not      *)
(* read.  A press reruns the script and runs no branch.                    *)
(***************************************************************************)
ClearCacheButton ==
    /\ pc = "idle"
    /\ ui_log' = Click("clear_cache", <<>>, 0, FALSE)
    /\ UNCHANGED <<searchVars, prospects, communications, searches, search_results,
                   crm_log, recent_map_searches, session_prospects, map_log, ticks,
                   confirm, warned, delete_log, search_zip_codes>>

\* searches of one ZIP code under the clock, with presses of the button
NextCache ==
    \/ StartSearch
    \/ TextSearch({1})
    \/ RadiusSearch({1})
    \/ CitySearch({1})
    \/ ProcessDealer(SessionCatalog)
    \/ Finish
    \/ Return
    \/ Tick(SearchTicks)
    \/ ClearCacheButton

SpecCache ==
    Init /\ [][NextCache]_vars

(***************************************************************************)
(* Vocabulary of the properties.                                           *)
(***************************************************************************)
Done ==
    pc = "done"

\* the candidates whose details this call has fetched without error
Processed ==
    {p \in PlaceIds : fetched[p] # <<>> /\ fetched[p][1].outcome # "error"}

DetailsOf(p) ==
    fetched[p][1].details

OutcomeOf(p) ==
    fetched[p][1].outcome

NameOf(p) ==
    Get(DetailsOf(p).name, "")

InReturned(p) ==
    \E i \in 1..Len(returned) : returned[i].place_id = p

InList(p) ==
    \E i \in 1..Len(processed_dealers) : processed_dealers[i].place_id = p

Letters ==
    {"a", "b", "c", "d", "e", "f", "g", "h", "i", "j", "k", "l", "m", "n", "o",
     "p", "q", "r", "s", "t", "u", "v", "w", "x", "y", "z"}

\* the brand is the first word of the name
BrandStartsName(name_lower, brand) ==
    /\ StartsWith(name_lower, brand)
    /\ \/ Len(name_lower) = Len(brand)
       \/ SubSeq(name_lower, Len(brand) + 1, Len(brand) + 1) \notin Letters

\* the brand is the last word of the name
BrandEndsName(name_lower, brand) ==
    /\ EndsWith(name_lower, brand)
    /\ \/ Len(name_lower) = Len(brand)
       \/ SubSeq(name_lower, Len(name_lower) - Len(brand),
                 Len(name_lower) - Len(brand)) \notin Letters

\* a brand token with a franchise-indicator phrase or as a prominent word
ProminentBrandName(name) ==
    LET name_lower == Lower(name) IN
    \E brand \in franchise_brands :
        /\ Contains(name_lower, brand)
        /\ \/ ContainsAny(name_lower, franchise_clear_indicators)
           \/ BrandStartsName(name_lower, brand)
           \/ BrandEndsName(name_lower, brand)
           \/ Contains(name_lower, " " \o brand \o " ")

\* a brand token with a franchise-indicator phrase, or at the very start or
\* end of the name, or between spaces
BrandWithCorroboration(name) ==
    LET name_lower == Lower(name) IN
    \E brand \in franchise_brands :
        /\ Contains(name_lower, brand)
        /\ \/ ContainsAny(name_lower, franchise_clear_indicators)
           \/ StartsWith(name_lower, brand)
           \/ EndsWith(name_lower, brand)
           \/ Contains(name_lower, " " \o brand \o " ")

PropertyFacts ==
    [name \in KnownNames |->
        [prominent |-> ProminentBrandName(Strip(name)),
         corroborated |-> BrandWithCorroboration(Strip(name)),
         has_brand |-> ContainsAny(Lower(Strip(name)), franchise_brands),
         franchise_only |-> ContainsAny(Lower(Strip(name)), franchise_only_patterns),
         indicator |-> ContainsAny(Lower(Strip(name)), independent_indicators),
         strong |-> ContainsAny(Lower(Strip(name)), strong_independent_words),
         car_token |-> ContainsAny(Lower(Strip(name)), car_related_words),
         non_dealer |-> ContainsAny(Lower(Strip(name)), skip_keywords)]]

(***************************************************************************)
(* C1: a candidate whose fetched details carry business_status             *)
(* CLOSED_PERMANENTLY is never in the list being built nor in the list     *)
(* returned, whatever its other fields.                                    *)
(***************************************************************************)
C1_ClosedNeverReturned ==
    \A p \in Processed :
        DetailsOf(p).business_status = <<"CLOSED_PERMANENTLY">>
            => ~InList(p) /\ ~InReturned(p)

\* a closed place that every other filter would keep and score 100 was
\* fetched, and the call returned without it
C1_Witness ==
    /\ Done
    /\ \E p \in Processed :
        /\ DetailsOf(p).business_status = <<"CLOSED_PERMANENTLY">>
        /\ NameOf(p) = "Family Owned Used Cars"
        /\ DetailsOf(p).location = <<118>>
        /\ DetailsOf(p).rating = <<45>>
        /\ DetailsOf(p).user_ratings_total = <<100>>
        /\ Truthy(DetailsOf(p).website) /\ Truthy(DetailsOf(p).formatted_phone_number)
        /\ OutcomeOf(p) = "closed"
        /\ ~InReturned(p)

(***************************************************************************)
(* C2: every candidate that reaches the franchise filter and whose name    *)
(* holds a brand token together with a franchise-indicator phrase or a     *)
(* prominent occurrence of the brand (first word, last word, or between    *)
(* spaces) is classified as franchise and is not in the list.              *)
(***************************************************************************)
C2_ProminentBrandIsFranchise ==
    \A p \in Processed :
        (PropertyFacts[NameOf(p)].prominent /\ OutcomeOf(p) \notin {"closed", "location"})
            => OutcomeOf(p) = "franchise" /\ ~InList(p) /\ ~InReturned(p)

(***************************************************************************)
(* C3 as stated: a candidate excluded as franchise has a brand token in    *)
(* its name.                                                               *)
(***************************************************************************)
C3_FranchiseOnlyWithBrand ==
    \A p \in Processed :
        OutcomeOf(p) = "franchise" => PropertyFacts[NameOf(p)].has_brand

(***************************************************************************)
(* C3 amended: a candidate is excluded as franchise only if its name holds *)
(* a brand token together with a franchise-indicator phrase or a prominent *)
(* occurrence of the brand, or holds one of the franchise-only phrases.    *)
(***************************************************************************)
C3_FranchiseOnlyIfCorroborated ==
    \A p \in Processed :
        OutcomeOf(p) = "franchise"
            => \/ PropertyFacts[NameOf(p)].corroborated
               \/ PropertyFacts[NameOf(p)].franchise_only

\* a name without any brand token was excluded as franchise by a phrase alone
C3_Witness ==
    /\ Done
    /\ \E p \in Processed :
        /\ OutcomeOf(p) = "franchise"
        /\ PropertyFacts[NameOf(p)].franchise_only
        /\ ~PropertyFacts[NameOf(p)].has_brand
        /\ ~InReturned(p)

(***************************************************************************)
(* C4: the name "City Motors - We Buy Any Car Including Toyota", which     *)
(* mentions a brand in passing and has no franchise-indicator phrase, is   *)
(* not classified as franchise.                                            *)
(***************************************************************************)
C4_IncidentalBrandNotFranchise ==
    \A p \in Processed :
        NameOf(p) = "City Motors - We Buy Any Car Including Toyota"
            => OutcomeOf(p) # "franchise"

(***************************************************************************)
(* C5: every dealer record, in the list being built and in the list        *)
(* returned, has an integer prospect_score between 0 and 100.              *)
(***************************************************************************)
C5_ScoreBounded ==
    /\ \A i \in 1..Len(processed_dealers) : processed_dealers[i].prospect_score \in 0..100
    /\ \A i \in 1..Len(returned) : returned[i].prospect_score \in 0..100

\* a record whose bonuses add up to 130 was returned with score 100
C5_Witness ==
    /\ Done
    /\ \E i \in 1..Len(returned) :
        LET d == DetailsOf(returned[i].place_id) IN
        /\ returned[i].prospect_score = 100
        /\ d.rating = <<45>> /\ d.user_ratings_total = <<100>>
        /\ Truthy(d.website) /\ Truthy(d.formatted_phone_number)
        /\ PropertyFacts[Get(d.name, "")].strong

(***************************************************************************)
(* C6: every dealer record has priority High exactly when its stored       *)
(* prospect_score is at least 70, and Standard otherwise.                  *)
(***************************************************************************)
C6_PriorityConsistent ==
    /\ \A i \in 1..Len(processed_dealers) :
        processed_dealers[i].priority =
            IF processed_dealers[i].prospect_score >= 70 THEN "High" ELSE "Standard"
    /\ \A i \in 1..Len(returned) :
        returned[i].priority =
            IF returned[i].prospect_score >= 70 THEN "High" ELSE "Standard"

\* a record with score exactly 70 was returned as High
C6_Witness ==
    /\ Done
    /\ \E i \in 1..Len(returned) :
        returned[i].prospect_score = 70 /\ returned[i].priority = "High"

(***************************************************************************)
(* C7: the prospect_score of every retained candidate is min(100, 50 +     *)
(* highest applicable rating tier + highest applicable review tier + 10    *)
(* for a website + 10 for a phone + 15 for an independent-dealer indicator *)
(* + 10 for a strong indicator); a rating of 0 or no rating adds nothing.  *)
(***************************************************************************)
RatingTiers ==
    {<<45, 20>>, <<40, 15>>, <<35, 10>>}

ReviewTiers ==
    {<<100, 15>>, <<50, 10>>, <<20, 5>>}

HighestTier(value, tiers) ==
    LET applicable == {t \in tiers : value >= t[1]} IN
    IF applicable = {} THEN 0
    ELSE (CHOOSE t \in applicable : \A u \in applicable : t[1] >= u[1])[2]

ExpectedScore(d) ==
    LET sum == 50
               + (IF d.rating = <<>> THEN 0 ELSE HighestTier(d.rating[1], RatingTiers))
               + (IF d.user_ratings_total = <<>> THEN 0
                  ELSE HighestTier(d.user_ratings_total[1], ReviewTiers))
               + (IF d.website # <<>> THEN 10 ELSE 0)
               + (IF d.formatted_phone_number # <<>> THEN 10 ELSE 0)
               + (IF PropertyFacts[Get(d.name, "")].indicator THEN 15 ELSE 0)
               + (IF PropertyFacts[Get(d.name, "")].strong THEN 10 ELSE 0)
    IN  IF sum > 100 THEN 100 ELSE sum

C7_ScoreFormula ==
    /\ \A i \in 1..Len(processed_dealers) :
        processed_dealers[i].prospect_score =
            ExpectedScore(DetailsOf(processed_dealers[i].place_id))
    /\ \A i \in 1..Len(returned) :
        returned[i].prospect_score = ExpectedScore(DetailsOf(returned[i].place_id))

\* rating 0, 50 reviews, a website, no phone, an indicator that is not a
\* strong one: the record was returned with 50 + 0 + 10 + 10 + 15 = 85
C7_Witness ==
    /\ Done
    /\ \E i \in 1..Len(returned) :
        LET d == DetailsOf(returned[i].place_id) IN
        /\ d.rating = <<0>> /\ d.user_ratings_total = <<50>>
        /\ d.website # <<>> /\ d.formatted_phone_number = <<>>
        /\ PropertyFacts[Get(d.name, "")].indicator
        /\ ~PropertyFacts[Get(d.name, "")].strong
        /\ returned[i].prospect_score = 85

(***************************************************************************)
(* C8: the list returned by a completed search is ordered: for every       *)
(* adjacent pair (a, b), a scores higher than b, or they score the same    *)
(* and a's rounded distance is at most b's.                                *)
(***************************************************************************)
C8_Ranked ==
    Done => \A i \in 1..(Len(returned) - 1) :
        \/ returned[i].prospect_score > returned[i + 1].prospect_score
        \/ /\ returned[i].prospect_score = returned[i + 1].prospect_score
           /\ returned[i].distance <= returned[i + 1].distance

PositionOf(p) ==
    CHOOSE i \in 1..Len(all_dealers) : all_dealers[i] = p

\* three records were returned, the first two tied on score and apart on
\* distance, the third scoring lower although it was processed first
C8_Witness ==
    /\ Done
    /\ Len(returned) = 3
    /\ returned[1].prospect_score = returned[2].prospect_score
    /\ returned[1].distance < returned[2].distance
    /\ returned[2].prospect_score > returned[3].prospect_score
    /\ PositionOf(returned[3].place_id) < PositionOf(returned[2].place_id)
    /\ PositionOf(returned[2].place_id) < PositionOf(returned[1].place_id)

(***************************************************************************)
(* C9: no place id occurs twice among the gathered candidates, in the list *)
(* being built or in the list returned, however often the queries, pages,  *)
(* radius searches and city searches name the same place.                  *)
(***************************************************************************)
C9_NoDuplicatePlace ==
    /\ \A i, j \in 1..Len(all_dealers) : i # j => all_dealers[i] # all_dealers[j]
    /\ \A i, j \in 1..Len(processed_dealers) :
        i # j => processed_dealers[i].place_id # processed_dealers[j].place_id
    /\ \A i, j \in 1..Len(returned) :
        i # j => returned[i].place_id # returned[j].place_id

\* a place was named again after it had been gathered, and the search
\* returned at least two records
C9_Witness ==
    /\ Done
    /\ repeated
    /\ Len(returned) >= 2

(***************************************************************************)
(* C10 as stated: every fetched candidate that is not permanently closed,  *)
(* not franchise, not a non-dealer, has a location or an address holding   *)
(* the ZIP, and has an indicator or a car-related token in its name is in  *)
(* the returned list, whatever its distance.                               *)
(***************************************************************************)
Eligible(p) ==
    /\ DetailsOf(p).business_status # <<"CLOSED_PERMANENTLY">>
    /\ ~NameTable[NameOf(p)].is_franchise
    /\ ~NameTable[NameOf(p)].should_skip
    /\ \/ DetailsOf(p).location # <<>>
       \/ Contains(Get(DetailsOf(p).formatted_address, ""), zip_code)
    /\ \/ PropertyFacts[NameOf(p)].indicator
       \/ PropertyFacts[NameOf(p)].car_token

C10_EligibleRetained ==
    Done => \A p \in Processed : Eligible(p) => InReturned(p)

(***************************************************************************)
(* C10 amended: such a candidate is in the returned list provided that,    *)
(* when it has a location, it lies at most 20 miles from the reference     *)
(* point.                                                                  *)
(***************************************************************************)
C10_EligibleWithin20Retained ==
    Done => \A p \in Processed :
        (Eligible(p) /\ (DetailsOf(p).location = <<>> \/ DetailsOf(p).location[1] <= 2000))
            => InReturned(p)

\* a candidate at exactly 20 miles was returned, with a generic token only
C10_Witness ==
    /\ Done
    /\ \E p \in Processed :
        /\ Eligible(p)
        /\ DetailsOf(p).location = <<2000>>
        /\ ~PropertyFacts[NameOf(p)].indicator
        /\ InReturned(p)

(***************************************************************************)
(* C11: a fetched candidate that has no location data and whose formatted  *)
(* address does not contain the searched ZIP-code string is never in the   *)
(* list being built nor in the list returned; no record of it, with        *)
(* distance 0 or any other, is ever produced.                              *)
(***************************************************************************)
C11_NoLocationNoZipDropped ==
    \A p \in Processed :
        (/\ DetailsOf(p).location = <<>>
         /\ ~Contains(Get(DetailsOf(p).formatted_address, ""), zip_code))
            => ~InList(p) /\ ~InReturned(p)

\* an operating, well-named candidate without location, address elsewhere
C11_Witness ==
    /\ Done
    /\ \E p \in Processed :
        /\ DetailsOf(p).location = <<>>
        /\ DetailsOf(p).formatted_address = <<AddrElsewhere>>
        /\ DetailsOf(p).business_status = <<"OPERATIONAL">>
        /\ NameOf(p) = "Family Owned Used Cars"
        /\ OutcomeOf(p) = "location"
        /\ ~InReturned(p)

(***************************************************************************)
(* C15: a fetched candidate whose lowercased name contains none of the     *)
(* independent-dealer indicator phrases and none of the generic            *)
(* car-related tokens is never in the list being built nor in the list     *)
(* returned.                                                               *)
(***************************************************************************)
C15_NoCarTokenDropped ==
    \A p \in Processed :
        (~PropertyFacts[NameOf(p)].indicator /\ ~PropertyFacts[NameOf(p)].car_token)
            => ~InList(p) /\ ~InReturned(p)

\* "Joe's Pizza", operating, a mile away, well rated, dropped as irrelevant
C15_Witness ==
    /\ Done
    /\ \E p \in Processed :
        /\ NameOf(p) = "Joe's Pizza"
        /\ DetailsOf(p).business_status = <<"OPERATIONAL">>
        /\ DetailsOf(p).location = <<118>>
        /\ DetailsOf(p).rating = <<45>>
        /\ OutcomeOf(p) = "irrelevant"
        /\ ~InReturned(p)

(***************************************************************************)
(* C16: a fetched candidate whose lowercased name contains a phrase of the *)
(* non-dealer set is never in the list being built nor in the list         *)
(* returned, whatever its rating, reviews, contact fields and whatever     *)
(* independent-dealer indicators its name also holds.                      *)
(***************************************************************************)
C16_NonDealerDropped ==
    \A p \in Processed :
        PropertyFacts[NameOf(p)].non_dealer => ~InList(p) /\ ~InReturned(p)

\* a gas station whose name also says "used cars", with the best other fields
C16_Witness ==
    /\ Done
    /\ \E p \in Processed :
        /\ NameOf(p) = "Main St Gas Station Used Cars"
        /\ PropertyFacts[NameOf(p)].indicator
        /\ DetailsOf(p).business_status = <<"OPERATIONAL">>
        /\ DetailsOf(p).location = <<118>>
        /\ DetailsOf(p).rating = <<45>>
        /\ DetailsOf(p).user_ratings_total = <<100>>
        /\ DetailsOf(p).website # <<>>
        /\ DetailsOf(p).formatted_phone_number # <<>>
        /\ OutcomeOf(p) = "non_dealer"
        /\ ~InReturned(p)

(***************************************************************************)
(* C12: when the fetch or the processing of a candidate fails, the call    *)
(* still visits every gathered candidate and returns; the failed           *)
(* candidates are absent from the result, and every other candidate is in  *)
(* the result exactly when its own details pass the filters, with the      *)
(* score, priority and distance of its own details, ranked by score and    *)
(* distance with ties in the order the candidates were gathered.           *)
(***************************************************************************)
Failed ==
    {p \in PlaceIds : fetched[p] # <<>> /\ fetched[p][1].outcome = "error"}

C12_FailureIsolated ==
    (Done /\ Failed # {}) =>
        /\ \A i \in 1..Len(all_dealers) : fetched[all_dealers[i]] # <<>>
        /\ \A p \in Failed : ~InReturned(p)
        /\ \A p \in Processed :
            InReturned(p) <=>
                /\ Eligible(p)
                /\ DetailsOf(p).location = <<>> \/ DetailsOf(p).location[1] <= 2000
        /\ \A i \in 1..Len(returned) :
            LET d == DetailsOf(returned[i].place_id) IN
            /\ returned[i].place_id \in Processed
            /\ returned[i].name = Strip(Get(d.name, ""))
            /\ returned[i].prospect_score = ExpectedScore(d)
            /\ returned[i].priority =
                 (IF ExpectedScore(d) >= 70 THEN "High" ELSE "Standard")
            /\ returned[i].distance =
                 (IF d.location = <<>> THEN 0 ELSE Round1(d.location[1]))
        /\ \A i, j \in 1..Len(returned) :
            i < j =>
                \/ returned[i].prospect_score > returned[j].prospect_score
                \/ /\ returned[i].prospect_score = returned[j].prospect_score
                   /\ returned[i].distance < returned[j].distance
                \/ /\ returned[i].prospect_score = returned[j].prospect_score
                   /\ returned[i].distance = returned[j].distance
                   /\ PositionOf(returned[i].place_id) < PositionOf(returned[j].place_id)

\* the second of three candidates failed; the first and the third were
\* returned
C12_Witness ==
    /\ Done
    /\ Len(all_dealers) = 3
    /\ all_dealers[2] \in Failed
    /\ Len(returned) = 2
    /\ InReturned(all_dealers[1])
    /\ InReturned(all_dealers[3])

(***************************************************************************)
(* C17: after every save_prospect and bulk_save_prospects call, failed     *)
(* ones included, no two rows of the prospects table have the same         *)
(* place_id, and every row stored before the call is still the row of its  *)
(* place_id: a save for a stored place_id changes that row and adds none.  *)
(***************************************************************************)
C17_Step ==
    /\ \A i, j \in 1..Len(prospects') :
        i # j => prospects'[i].place_id # prospects'[j].place_id
    /\ \A i \in 1..Len(prospects) :
        \E j \in 1..Len(prospects') :
            /\ prospects'[j].id = prospects[i].id
            /\ prospects'[j].place_id = prospects[i].place_id

C17_OneRowPerPlace ==
    [][C17_Step]_vars

\* a batch updated the stored row of one place and created a row for another
C17_Witness ==
    /\ crm_log.op = "bulk_save_prospects"
    /\ crm_log.ok
    /\ crm_log.existed
    /\ Len(prospects) = 2
    /\ prospects[1].id = 1
    /\ prospects[1].name = <<"Smith Motors">>

(***************************************************************************)
(* C20: a step that stores a communication whose status is sent, delivered *)
(* or answered leaves the prospect it names with status contacted and      *)
(* every other row as it was; a step that stores a communication with any  *)
(* other status, or none, leaves the prospects table as it was.            *)
(***************************************************************************)
C20_Step ==
    Len(communications') = Len(communications) + 1 =>
        LET c == communications'[Len(communications')] IN
        IF c.status \in {<<"sent">>, <<"delivered">>, <<"answered">>}
        THEN /\ Len(prospects') = Len(prospects)
             /\ \A i \in 1..Len(prospects) :
                 prospects'[i] =
                    IF prospects[i].id = c.prospect_id
                    THEN [prospects[i] EXCEPT !.status = "contacted"]
                    ELSE prospects[i]
        ELSE prospects' = prospects

C20_ContactedAfterContact ==
    [][C20_Step]_vars

\* an answered call was logged for a prospect whose status was dnc
C20_Witness ==
    /\ crm_log.op = "log_communication"
    /\ crm_log.ok
    /\ crm_log.before = "dnc"
    /\ communications # <<>>
    /\ communications[Len(communications)].status = <<"answered">>
    /\ StatusOf(prospects, communications[Len(communications)].prospect_id) = "contacted"

(***************************************************************************)
(* C13: when a search finishes on the candidates, in the order, and with   *)
(* the details on which the search that wrote the stored result for the    *)
(* same ZIP had run, it returns the list that search returned: the same    *)
(* records in the same order, with the same scores, priorities and         *)
(* distances.                                                              *)
(***************************************************************************)
C13_Step ==
    (/\ pc = "process" /\ pc' = "done"
     /\ cache_inputs[zip_code] # <<>>
     /\ cache_inputs[zip_code][1].all_dealers = all_dealers
     /\ cache_inputs[zip_code][1].fetched = fetched)
        => returned' = search_cache[zip_code][1].results

StoredAge(z) ==
    now - search_cache[z][1].time

C14_Begin ==
    (pc = "idle" /\ pc' # "idle") =>
        LET z == zip_code' IN
        /\ (search_cache[z] # <<>> /\ StoredAge(z) < 60) =>
            /\ pc' = "done"
            /\ returned' = search_cache[z][1].results
            /\ ~contacted'
            /\ search_cache' = search_cache
        /\ (search_cache[z] # <<>> /\ StoredAge(z) >= 60) => contacted'

C14_EndReplaces ==
    (pc # "done" /\ pc' = "done" /\ contacted') =>
        LET z == zip_code' IN
        (search_cache[z] # <<>> /\ StoredAge(z) >= 60) =>
            search_cache'[z] = <<[time |-> now', results |-> returned']>>

C14_CacheOneHour ==
    [][C14_Begin /\ C14_EndReplaces]_vars

(***************************************************************************)
(* C14 amended: as above, except that a search whose geocoding fails       *)
(* returns the empty list and leaves the stored entry as it was; the entry *)
(* is replaced when the search runs to its end.                            *)
(***************************************************************************)
C14_EndReplacesUnlessFailed ==
    (pc # "done" /\ pc' = "done" /\ contacted') =>
        LET z == zip_code' IN
        (search_cache[z] # <<>> /\ StoredAge(z) >= 60) =>
            IF pc = "idle"
            THEN returned' = <<>> /\ search_cache' = search_cache
            ELSE search_cache'[z] = <<[time |-> now', results |-> returned']>>

C14_CacheOneHourUnlessFailed ==
    [][C14_Begin /\ C14_EndReplacesUnlessFailed]_vars

\* a search begun exactly one hour after the stored result was written has
\* contacted the provider and stamped the entry anew
C14_Witness ==
    /\ Done
    /\ contacted
    /\ calls = 2
    /\ now = 60
    /\ search_cache[zip_code] = <<[time |-> 60, results |-> returned]>>
    /\ cache_inputs[zip_code][1].again
    /\ Len(returned) = 1

(***************************************************************************)
(* C18: a map click on a ZIP for which a map-click search returned less    *)
(* than 5 minutes earlier, whatever it returned, does not call the search  *)
(* function; a click on a ZIP whose last map-click search returned 5       *)
(* minutes earlier or more does call it.                                   *)
(***************************************************************************)
MapClickStep ==
    calls' = calls + 1 /\ map_log'.zip_code # ""

SearchInvoked ==
    map_log'.did \in {"searched", "searched_none", "search_raised"}

C18_Step ==
    MapClickStep =>
        LET last == map_log.searched[map_log'.zip_code] IN
        /\ (last >= 0 /\ now - last < 5) => ~SearchInvoked
        /\ (last >= 0 /\ now - last >= 5) => SearchInvoked

C18_NoRepeatWithinFiveMinutes ==
    [][C18_Step]_vars

(***************************************************************************)
(* C19: every map click that resolves to a ZIP and whose dealer search     *)
(* returns, with dealers or with none, adds one row to the searches table, *)
(* whose source is map_click and whose zip_codes is that ZIP alone.        *)
(***************************************************************************)
C19_Step ==
    (MapClickStep /\ map_log'.did \in {"searched", "searched_none"}) =>
        /\ Len(searches') = Len(searches) + 1
        /\ searches'[Len(searches')].source = "map_click"
        /\ searches'[Len(searches')].zip_codes = <<map_log'.zip_code>>

C19_EveryMapSearchLogged ==
    [][C19_Step]_vars

(***************************************************************************)
(* C21: after a delete_prospect call, and after a bulk_delete_prospects    *)
(* call, no row of the prospects, communications or search_results tables  *)
(* refers to a deleted id, every other row of the three tables and every   *)
(* searches row is as it was and in its place, and the call returns True   *)
(* (the bulk call: counts the id) exactly for an id that had a prospects   *)
(* row before the call.                                                    *)
(***************************************************************************)
DeleteStep ==
    crm_log'.op \in {"delete_prospect", "bulk_delete_prospects"}

DeletedIds ==
    {delete_log'.prospect_ids[i] : i \in 1..Len(delete_log'.prospect_ids)}

HadProspect(id) ==
    \E i \in 1..Len(prospects) : prospects[i].id = id

C21_Step ==
    DeleteStep =>
        /\ \A i \in 1..Len(prospects') : prospects'[i].id \notin DeletedIds
        /\ \A i \in 1..Len(communications') :
            communications'[i].prospect_id \notin DeletedIds
        /\ \A i \in 1..Len(search_results') :
            search_results'[i].prospect_id \notin DeletedIds
        /\ prospects' = SelectSeq(prospects, LAMBDA r : r.id \notin DeletedIds)
        /\ communications' =
             SelectSeq(communications, LAMBDA r : r.prospect_id \notin DeletedIds)
        /\ search_results' =
             SelectSeq(search_results, LAMBDA r : r.prospect_id \notin DeletedIds)
        /\ searches' = searches
        /\ crm_log'.op = "delete_prospect" =>
             (crm_log'.ok <=> \A id \in DeletedIds : HadProspect(id))
        /\ delete_log'.count = Cardinality({id \in DeletedIds : HadProspect(id)})

C21_DeleteRemovesAllReferences ==
    [][C21_Step]_vars

\* delete_prospect returned True after deleting a prospect together with a
\* communication and a search result of its own, and left another prospect
\* and its search result behind
C21_Witness ==
    /\ crm_log.op = "delete_prospect"
    /\ crm_log.ok
    /\ delete_log.count = 1
    /\ delete_log.related = 2
    /\ Len(prospects) = 1
    /\ Len(search_results) = 1
    /\ search_results[1].prospect_id = prospects[1].id

(***************************************************************************)
(* C22: a click on a delete button calls the delete function only when a   *)
(* warning for the same target (the prospect, the selected prospects, the  *)
(* search) was shown by an earlier click and no deletion has followed it;  *)
(* a click on a target without such a warning deletes no row; and a click  *)
(* that deleted leaves the confirmation key of its target cleared.         *)
(***************************************************************************)
DeleteClickStep ==
    /\ ui_log' # ui_log
    /\ ui_log'.click \in {"delete", "delete_selected", "delete_search"}

TargetWarned ==
    CASE ui_log'.click = "delete" -> ui_log'.selected[1] \in warned.prospect
      [] ui_log'.click = "delete_selected" ->
            warned.bulk = <<Range(ui_log'.selected)>>
      [] ui_log'.click = "delete_search" -> ui_log'.search_id \in warned.search

TargetCleared ==
    CASE ui_log'.click = "delete" -> ui_log'.selected[1] \notin confirm'.prospect
      [] ui_log'.click = "delete_selected" -> ~confirm'.bulk
      [] ui_log'.click = "delete_search" -> ui_log'.search_id \notin confirm'.search

C22_Step ==
    DeleteClickStep =>
        /\ ui_log'.invoked => TargetWarned
        /\ ~TargetWarned =>
            /\ ~ui_log'.invoked
            /\ prospects' = prospects
            /\ communications' = communications
            /\ searches' = searches
            /\ search_results' = search_results
        /\ (ui_log'.invoked /\ crm_log'.ok) => TargetCleared

C22_DeleteNeedsTwoClicks ==
    [][C22_Step]_vars

(***************************************************************************)
(* C23: one "Save Selected to CRM" action adds exactly one row to the      *)
(* searches table, and that row has new_prospects equal to the number of   *)
(* selected dealers that had no prospects row before the save and          *)
(* duplicate_prospects equal to the number that had one.                   *)
(***************************************************************************)
SaveSelectedStep ==
    /\ calls' = calls + 1
    /\ ui_log'.click = "save_selected"
    /\ ui_log'.calls = calls

InCRM(place_id) ==
    \E i \in 1..Len(prospects) : prospects[i].place_id = <<place_id>>

C23_Step ==
    SaveSelectedStep =>
        LET selected == ui_log'.selected
            were_new == {i \in 1..Len(selected) : ~InCRM(selected[i])} IN
        /\ Len(searches') = Len(searches) + 1
        /\ searches'[Len(searches')].new_prospects = Cardinality(were_new)
        /\ searches'[Len(searches')].duplicate_prospects =
             Len(selected) - Cardinality(were_new)

C23_OneSearchRowPerSave ==
    [][C23_Step]_vars

(***************************************************************************)
(* C24: every search_results row added by a map-click search or by "Save   *)
(* Selected to CRM" has was_new_prospect True exactly when the prospects   *)
(* table held no row with the place_id of the linked prospect before that  *)
(* save.                                                                   *)
(***************************************************************************)
PlaceOfProspect(rows, prospect_id) ==
    (CHOOSE r \in Range(rows) : r.id = prospect_id).place_id

C24_Step ==
    \A i \in (Len(search_results) + 1)..Len(search_results') :
        LET link == search_results'[i] IN
        link.was_new_prospect <=>
            ~\E j \in 1..Len(prospects) :
                prospects[j].place_id = PlaceOfProspect(prospects', link.prospect_id)

C24_WasNewIffNotStored ==
    [][C24_Step]_vars

(***************************************************************************)
(* C26: after any sequence of "Search Territories" runs over one to three  *)
(* ZIP codes, map-click searches and "Clear All" actions, no two records   *)
(* of the session's prospects list have the same place_id.                 *)
(***************************************************************************)
C26_SessionProspectsUnique ==
    \A i, j \in 1..Len(session_prospects) :
        i # j => session_prospects[i].place_id # session_prospects[j].place_id

\* the last search ran over two ZIP codes whose lists both hold the second
\* dealer, and the session lists it once, under the first ZIP code
C26_Witness ==
    /\ search_zip_codes = <<"30301", "30303">>
    /\ search_cache["30301"] # <<>>
    /\ search_cache["30303"] # <<>>
    /\ Len(search_cache["30301"][1].results) = 2
    /\ Len(search_cache["30303"][1].results) = 2
    /\ Len(session_prospects) = 2
    /\ \A i \in 1..2 : session_prospects[i].source_zip = "30301"

(***************************************************************************)
(* C25: the first search that begins after a press of "Clear Cache", for a *)
(* ZIP code whose result is stored, contacts the places provider and does  *)
(* not return the stored result at once, however young the stored result.  *)
(***************************************************************************)
C25_Step ==
    (/\ pc = "idle" /\ pc' # "idle"
     /\ ui_log.click = "clear_cache"
     /\ ui_log.calls = calls
     /\ search_cache[zip_code'] # <<>>)
        => contacted'

C25_ClearCacheForcesNewSearch ==
    [][C25_Step]_vars

====
